---- MODULE Spec2Model ----
(***************************************************************************)
(* A model of src/expand.rs of async-trait: expand() walks the methods of  *)
(* a trait or impl and rewrites every `async fn` into a method returning a *)
(* pinned boxed future (transform_block, transform_sig).                   *)
(*                                                                         *)
(* The syntax tree is modelled by records.  An Option<T> is a sequence of  *)
(* length 0 or 1, an absent lifetime is the empty string.                  *)
(***************************************************************************)
EXTENDS Integers, Sequences, FiniteSets, TLC

VARIABLES input, is_local, pc, idx, calls, orig

vars == <<input, is_local, pc, idx, calls, orig>>

\* Bounds of the explored inputs.
MaxParams == 1
MaxItems == 2

(***************************************************************************)
(* Syntax tree constructors.                                               *)
(***************************************************************************)
NoLifetime == ""

TypePath(name) == [kind |-> "Path", name |-> name]

TypeReference(lifetime, mutability, elem) ==
    [kind |-> "Reference", lifetime |-> lifetime, mutability |-> mutability, elem |-> elem]

PatIdent(by_ref, mutability, ident) ==
    [kind |-> "Ident", by_ref |-> by_ref, mutability |-> mutability, ident |-> ident]

PatTuple(elems) == [kind |-> "Tuple", elems |-> elems]

Receiver(reference, lifetime, mutability) ==
    [arg |-> "Receiver", reference |-> reference, lifetime |-> lifetime,
     mutability |-> mutability]

Typed(pat, ty) == [arg |-> "Typed", pat |-> pat, ty |-> ty]

TypeParam(ident) == [kind |-> "Type", name |-> ident]
LifetimeParam(lifetime) == [kind |-> "Lifetime", name |-> lifetime]
ConstParam(ident) == [kind |-> "Const", name |-> ident]

Predicate(bounded, bounds) == [bounded |-> bounded, bounds |-> bounds]

ReturnDefault == [kind |-> "Default"]
ReturnType(ty) == [kind |-> "Type", ty |-> ty]

StmtVerbatim(tokens) == [kind |-> "Verbatim", tokens |-> tokens]
StmtExpr(name, recv) == [kind |-> "Expr", name |-> name, recv |-> recv]

Range(s) == {s[i] : i \in DOMAIN s}

(***************************************************************************)
(* Collaborators of expand.rs that live in other files of the crate        *)
(* (lifetime.rs, receiver.rs).                                             *)
(***************************************************************************)
CollectLifetimes_new(name) == [elided |-> <<>>, explicit |-> <<>>, name |-> name]

next_lifetime(cl) == cl.name \o ToString(Len(cl.elided))

\* A lifetime position: a missing or anonymous lifetime gets the next fresh
\* name, a written one is recorded as explicit.
visit_opt_lifetime(cl, lifetime) ==
    IF lifetime = NoLifetime \/ lifetime = "'_"
    THEN [cl |-> [cl EXCEPT !.elided = Append(@, next_lifetime(cl))],
          lifetime |-> next_lifetime(cl)]
    ELSE [cl |-> [cl EXCEPT !.explicit =
                     IF lifetime \in Range(@) THEN @ ELSE Append(@, lifetime)],
          lifetime |-> lifetime]

visit_receiver_mut(cl, arg) ==
    IF arg.reference
    THEN LET r == visit_opt_lifetime(cl, arg.lifetime)
         IN [cl |-> r.cl, node |-> [arg EXCEPT !.lifetime = r.lifetime]]
    ELSE [cl |-> cl, node |-> arg]

visit_type_mut(cl, ty) ==
    IF ty.kind = "Reference"
    THEN LET r == visit_opt_lifetime(cl, ty.lifetime)
         IN [cl |-> r.cl, node |-> [ty EXCEPT !.lifetime = r.lifetime]]
    ELSE [cl |-> cl, node |-> ty]

TypeHasSelf(ty) ==
    \/ ty.kind = "Path" /\ ty.name \in {"Self", "Box<Self>"}
    \/ ty.kind = "Reference" /\ ty.elem = "Self"

has_self_in_sig(sig) ==
    \E i \in DOMAIN sig.inputs :
        \/ sig.inputs[i].arg = "Receiver"
        \/ sig.inputs[i].arg = "Typed" /\ TypeHasSelf(sig.inputs[i].ty)

has_self_in_block(block) ==
    \E i \in DOMAIN block.stmts :
        /\ block.stmts[i].kind = "Expr"
        /\ block.stmts[i].recv \in {"self", "Self"}

\* The `mut` token of a destructuring pattern: present when one of its
\* bindings is mutable.  The call site splices it in front of the placeholder.
mut_pat(pat) ==
    pat.kind = "Tuple" /\ \E i \in DOMAIN pat.elems : pat.elems[i].mutability

ReplaceSelf(prefix, stmts) ==
    [i \in DOMAIN stmts |->
        IF stmts[i].kind = "Expr" /\ stmts[i].recv \in {"self", "Self"}
        THEN [stmts[i] EXCEPT !.recv = prefix \o @]
        ELSE stmts[i]]

(***************************************************************************)
(* expand.rs                                                               *)
(***************************************************************************)
\* Context::lifetimes: the lifetime parameters of the enclosing trait or impl
\* that occur in `used`.
Context_lifetimes(context, used) ==
    LET generics == IF context.kind = "Trait" THEN context.generics
                    ELSE context.impl_generics
    IN SelectSeq(generics.params,
                 LAMBDA param : param.kind = "Lifetime" /\ param.name \in Range(used))

\* a variant that forgets the index
positional_arg_NoIndex(i) == "__arg"

positional_arg(i) == "__arg" \o ToString(i)

PathIsIdent(path, ident) == path = <<ident>>

RECURSIVE has_bound(_, _)
has_bound(supertraits, marker) ==
    IF supertraits = <<>> THEN FALSE
    ELSE IF Head(supertraits).kind = "Trait" /\ PathIsIdent(Head(supertraits).path, marker)
         THEN TRUE
         ELSE has_bound(Tail(supertraits), marker)

\* transform_sig, lines 136-142: run the lifetime collector over the receiver
\* and over every typed parameter's type, in order.
RECURSIVE CollectInputs(_, _)
CollectInputs(cl, inputs) ==
    IF inputs = <<>> THEN [cl |-> cl, inputs |-> <<>>]
    ELSE LET arg == Head(inputs)
             r == IF arg.arg = "Receiver" THEN visit_receiver_mut(cl, arg)
                  ELSE LET t == visit_type_mut(cl, arg.ty)
                       IN [cl |-> t.cl, node |-> [arg EXCEPT !.ty = t.node]]
             rest == CollectInputs(r.cl, Tail(inputs))
         IN [cl |-> rest.cl, inputs |-> <<r.node>> \o rest.inputs]

Outlives(name) == Predicate(name, <<"'async_trait">>)

\* a variant that bounds the type parameters only
ParamPredicates_TypesOnly(params) ==
    LET kept == SelectSeq(params, LAMBDA param : param.kind = "Type")
    IN [i \in DOMAIN kept |-> Predicate(kept[i].name, <<"'async_trait">>)]

\* transform_sig, lines 151-172: one `P: 'async_trait` per type or lifetime
\* parameter, none for a const parameter.
ParamPredicates(params) ==
    LET kept == SelectSeq(params, LAMBDA param : param.kind \in {"Type", "Lifetime"})
    IN [i \in DOMAIN kept |-> Outlives(kept[i].name)]

\* a variant that takes every reference receiver for a shared one
SelfBound_AnyReference(inputs) ==
    IF inputs = <<>> THEN "Send"
    ELSE LET first == Head(inputs)
         IN IF first.arg = "Receiver" /\ first.reference
            THEN "Sync"
            ELSE IF /\ first.arg = "Typed"
                    /\ first.pat.kind = "Ident"
                    /\ first.ty.kind = "Reference"
                    /\ first.pat.ident = "self"
                 THEN "Sync"
                 ELSE "Send"

\* transform_sig, lines 181-198: the marker a default body needs of Self.
SelfBound(inputs) ==
    IF inputs = <<>> THEN "Send"
    ELSE LET first == Head(inputs)
         IN IF first.arg = "Receiver" /\ first.reference /\ ~first.mutability
            THEN "Sync"
            ELSE IF /\ first.arg = "Typed"
                    /\ first.pat.kind = "Ident"
                    /\ first.ty.kind = "Reference"
                    /\ first.pat.ident = "self"
                    /\ ~first.ty.mutability
                 THEN "Sync"
                 ELSE "Send"

\* a variant that wants both conditions where the code wants one
assume_bound_Both(context, has_default, bound) ==
    IF context.kind = "Trait"
    THEN ~has_default /\ has_bound(context.supertraits, bound)
    ELSE TRUE

\* a variant that looks at the supertraits only
assume_bound_SupertraitsOnly(context, has_default, bound) ==
    IF context.kind = "Trait"
    THEN has_bound(context.supertraits, bound)
    ELSE TRUE

\* transform_sig, lines 199-202.
assume_bound(context, has_default, bound) ==
    IF context.kind = "Trait"
    THEN ~has_default \/ has_bound(context.supertraits, bound)
    ELSE TRUE

\* transform_sig, lines 203-207.
SelfPredicate(context, inputs, has_default, local) ==
    LET bound == SelfBound(inputs)
    IN IF assume_bound(context, has_default, bound) \/ local
       THEN Predicate("Self", <<"'async_trait">>)
       ELSE Predicate("Self", <<"::core::marker::" \o bound, "'async_trait">>)

\* a variant that keeps the mut of an identifier pattern
NormalizeArg_KeepMut(i, arg) ==
    IF arg.arg = "Receiver"
    THEN IF arg.reference THEN arg ELSE [arg EXCEPT !.mutability = FALSE]
    ELSE IF arg.pat.kind = "Ident"
         THEN [arg EXCEPT !.pat.by_ref = FALSE]
         ELSE [arg EXCEPT !.pat = PatIdent(FALSE, mut_pat(arg.pat), positional_arg(i))]

\* transform_sig, lines 210-228: parameter i (counted from 0) after pattern
\* normalisation.
NormalizeArg(i, arg) ==
    IF arg.arg = "Receiver"
    THEN IF arg.reference THEN arg ELSE [arg EXCEPT !.mutability = FALSE]
    ELSE IF arg.pat.kind = "Ident"
         THEN [arg EXCEPT !.pat.by_ref = FALSE, !.pat.mutability = FALSE]
         ELSE [arg EXCEPT !.pat = PatIdent(FALSE, mut_pat(arg.pat), positional_arg(i))]

\* a variant that bounds the future by Send in either mode
FutureBounds_AlwaysSend(local) == <<"::core::marker::Send", "'async_trait">>

\* transform_sig, lines 230-234.
FutureBounds(local) ==
    IF local THEN <<"'async_trait">>
    ELSE <<"::core::marker::Send", "'async_trait">>

\* transform_sig, lines 236-240.
PinBoxFuture(ret, bounds) == [kind |-> "PinBoxDynFuture", Output |-> ret, bounds |-> bounds]

\* transform_sig, lines 131-134, and transform_block, lines 302-305.
OutputType(output) == IF output.kind = "Default" THEN [kind |-> "Unit"] ELSE output.ty

transform_sig(context, sig, has_self, has_default, local) ==
    LET ret == OutputType(sig.output)
        collected == CollectInputs(CollectLifetimes_new("'life"), sig.inputs)
        lifetimes == collected.cl
        \* get_or_insert_with: an absent where-clause starts empty
        predicates0 == IF sig.generics.where_clause = <<>> THEN <<>>
                       ELSE sig.generics.where_clause[1].predicates
        predicates1 == predicates0 \o
            ParamPredicates(sig.generics.params
                            \o Context_lifetimes(context, lifetimes.explicit))
        params1 == sig.generics.params \o
            [i \in DOMAIN lifetimes.elided |-> LifetimeParam(lifetimes.elided[i])]
        predicates2 == predicates1 \o
            [i \in DOMAIN lifetimes.elided |-> Outlives(lifetimes.elided[i])]
        params2 == Append(params1, LifetimeParam("'async_trait"))
        predicates3 == IF has_self
                       THEN Append(predicates2,
                                   SelfPredicate(context, collected.inputs, has_default, local))
                       ELSE predicates2
        inputs2 == [i \in DOMAIN collected.inputs |-> NormalizeArg(i - 1, collected.inputs[i])]
    IN [sig EXCEPT !.asyncness = FALSE,
                   !.generics = [params |-> params2,
                                 where_clause |-> <<[predicates |-> predicates3]>>],
                   !.inputs = inputs2,
                   !.output = ReturnType(PinBoxFuture(ret, FutureBounds(local)))]

\* transform_block, lines 264-268: the `;` placeholder of a method without a
\* real body.
IsStub(block) ==
    /\ Len(block.stmts) = 1
    /\ block.stmts[1].kind = "Verbatim"
    /\ block.stmts[1].tokens = ";"

Local(pat, init) == [kind |-> "Local", pat |-> pat, init |-> init]

\* a variant that counts the parameters from 1
Decl_FromOne(i, arg) ==
    IF arg.arg = "Receiver"
    THEN Local(PatIdent(FALSE, arg.mutability, "__self"), "self")
    ELSE IF arg.pat.kind = "Ident"
         THEN IF arg.pat.ident = "self"
              THEN Local(PatIdent(FALSE, arg.pat.mutability, "__self"), "self")
              ELSE Local(PatIdent(FALSE, arg.pat.mutability, arg.pat.ident), arg.pat.ident)
         ELSE Local(arg.pat, positional_arg(i + 1))

\* transform_block, lines 272-294: the re-binding of parameter i.
Decl(i, arg) ==
    IF arg.arg = "Receiver"
    THEN Local(PatIdent(FALSE, arg.mutability, "__self"), "self")
    ELSE IF arg.pat.kind = "Ident"
         THEN IF arg.pat.ident = "self"
              THEN Local(PatIdent(FALSE, arg.pat.mutability, "__self"), "self")
              ELSE Local(PatIdent(FALSE, arg.pat.mutability, arg.pat.ident), arg.pat.ident)
         ELSE Local(arg.pat, positional_arg(i))

\* transform_block, lines 273-283: a receiver, or a parameter named self, sets
\* self_span.
HasSelfSpan(inputs) ==
    \E i \in DOMAIN inputs :
        \/ inputs[i].arg = "Receiver"
        \/ inputs[i].arg = "Typed" /\ inputs[i].pat.kind = "Ident"
                                   /\ inputs[i].pat.ident = "self"

transform_block(sig, block) ==
    IF IsStub(block) THEN block
    ELSE LET decls == [i \in DOMAIN sig.inputs |-> Decl(i - 1, sig.inputs[i])]
             stmts == IF HasSelfSpan(sig.inputs) THEN ReplaceSelf("__", block.stmts)
                      ELSE block.stmts
             ret_ty == OutputType(sig.output)
         IN [stmts |-> << [kind |-> "BoxPinAsyncMove",
                           ret_ty |-> ret_ty,
                           inner |-> decls
                                     \o << Local(PatIdent(FALSE, FALSE, "__async_trait"), "") >>
                                     \o stmts] >>]

\* A path carries a lifetime position only when a lifetime argument is written.
visit_path_mut(cl, path) ==
    IF path.lifetime = NoLifetime THEN [cl |-> cl, node |-> path]
    ELSE LET r == visit_opt_lifetime(cl, path.lifetime)
         IN [cl |-> r.cl, node |-> [path EXCEPT !.lifetime = r.lifetime]]

\* expand, lines 56-59 and 88-90.
Context(item) ==
    IF item.kind = "Trait"
    THEN [kind |-> "Trait", generics |-> item.generics, supertraits |-> item.supertraits]
    ELSE [kind |-> "Impl", impl_generics |-> item.generics]

NotCalled == [called |-> FALSE]
Called(has_self, has_default) ==
    [called |-> TRUE, has_self |-> has_self, has_default |-> has_default]

AllowUnderscore == "allow(clippy::used_underscore_binding)"
MustUse == "must_use"

\* a variant that rewrites the signature only of a method with a body
expand_trait_item_BodyOnly(context, inner, local) ==
    IF inner.item = "Method" /\ inner.sig.asyncness /\ inner.default # <<>>
    THEN LET sig == inner.sig
             has_self == \/ has_self_in_sig(sig)
                         \/ has_self_in_block(inner.default[1])
             default1 == <<transform_block(sig, inner.default[1])>>
             sig1 == transform_sig(context, sig, has_self, TRUE, local)
         IN [item |-> [inner EXCEPT !.sig = sig1, !.default = default1,
                                    !.attrs = inner.attrs \o <<AllowUnderscore, MustUse>>],
             call |-> Called(has_self, TRUE)]
    ELSE [item |-> inner, call |-> NotCalled]

\* expand, lines 61-77: one item of a trait.
expand_trait_item(context, inner, local) ==
    IF inner.item = "Method" /\ inner.sig.asyncness
    THEN LET sig == inner.sig
             has_block == inner.default # <<>>
             has_self == \/ has_self_in_sig(sig)
                         \/ has_block /\ has_self_in_block(inner.default[1])
             default1 == IF has_block THEN <<transform_block(sig, inner.default[1])>>
                         ELSE <<>>
             attrs1 == IF has_block THEN Append(inner.attrs, AllowUnderscore)
                       ELSE inner.attrs
             has_default == default1 # <<>>
             sig1 == transform_sig(context, sig, has_self, has_default, local)
         IN [item |-> [inner EXCEPT !.sig = sig1, !.default = default1,
                                    !.attrs = Append(attrs1, MustUse)],
             call |-> Called(has_self, has_default)]
    ELSE [item |-> inner, call |-> NotCalled]

\* a variant that rewrites the signature first and the body after it
expand_impl_item_SigFirst(context, inner, local) ==
    IF inner.item = "Method" /\ inner.sig.asyncness
    THEN LET sig1 == transform_sig(context, inner.sig, has_self_in_sig(inner.sig), FALSE, local)
             block1 == transform_block(sig1, inner.block)
             has_self == has_self_in_sig(inner.sig) \/ has_self_in_block(block1)
         IN [item |-> [inner EXCEPT !.sig = sig1, !.block = block1,
                                    !.attrs = Append(inner.attrs, AllowUnderscore)],
             call |-> Called(has_self, FALSE)]
    ELSE [item |-> inner, call |-> NotCalled]

\* expand, lines 92-103: one item of an impl.
expand_impl_item(context, inner, local) ==
    IF inner.item = "Method" /\ inner.sig.asyncness
    THEN LET sig == inner.sig
             has_self == has_self_in_sig(sig) \/ has_self_in_block(inner.block)
             block1 == transform_block(sig, inner.block)
             sig1 == transform_sig(context, sig, has_self, FALSE, local)
         IN [item |-> [inner EXCEPT !.sig = sig1, !.block = block1,
                                    !.attrs = Append(inner.attrs, AllowUnderscore)],
             call |-> Called(has_self, FALSE)]
    ELSE [item |-> inner, call |-> NotCalled]

\* expand, lines 81-86: the lifetimes of the self type and of the trait path
\* are named and put in front of the impl's generic parameters.
hoist_impl_lifetimes(item) ==
    LET s == visit_type_mut(CollectLifetimes_new("'impl"), item.self_ty)
        t == visit_path_mut(s.cl, item.trait_[1])
        elided == t.cl.elided
    IN [item EXCEPT !.self_ty = s.node,
                    !.trait_ = <<t.node>>,
                    !.generics.params =
                        [i \in DOMAIN elided |-> LifetimeParam(elided[i])] \o @]

(***************************************************************************)
(* The inputs explored.                                                    *)
(***************************************************************************)
Receivers ==
    { <<>>,
      <<Receiver(FALSE, NoLifetime, FALSE)>>,                     \* self
      <<Receiver(FALSE, NoLifetime, TRUE)>>,                      \* mut self
      <<Receiver(TRUE, NoLifetime, FALSE)>>,                      \* &self
      <<Receiver(TRUE, NoLifetime, TRUE)>>,                       \* &mut self
      <<Receiver(TRUE, "'a", FALSE)>>,                            \* &'a self
      <<Typed(PatIdent(FALSE, FALSE, "self"), TypeReference(NoLifetime, FALSE, "Self"))>>,
      <<Typed(PatIdent(FALSE, FALSE, "self"), TypeReference(NoLifetime, TRUE, "Self"))>>,
      <<Typed(PatIdent(FALSE, TRUE, "self"), TypePath("Box<Self>"))>> }

TypedParams ==
    { Typed(PatIdent(FALSE, FALSE, "x"), TypeReference(NoLifetime, FALSE, "T")),   \* x: &T
      Typed(PatIdent(FALSE, TRUE, "x"), TypePath("T")),                            \* mut x: T
      Typed(PatIdent(TRUE, FALSE, "x"), TypePath("T")),                            \* ref x: T
      Typed(PatIdent(FALSE, FALSE, "x"), TypeReference("'a", TRUE, "u8")),         \* x: &'a mut u8
      Typed(PatTuple(<<PatIdent(FALSE, FALSE, "a"), PatIdent(FALSE, FALSE, "b")>>),
            TypePath("(A, B)")),                                                   \* (a, b)
      Typed(PatTuple(<<PatIdent(FALSE, TRUE, "a"), PatIdent(FALSE, FALSE, "b")>>),
            TypePath("(A, B)")) }                                                  \* (mut a, b)

RECURSIVE SeqsUpTo(_, _)
SeqsUpTo(S, n) ==
    IF n = 0 THEN {<<>>}
    ELSE LET shorter == SeqsUpTo(S, n - 1)
         IN shorter \cup {Append(s, x) : s \in shorter, x \in S}

ParamLists == SeqsUpTo(TypedParams, MaxParams)

UserPredicate == Predicate("T", <<"Clone">>)

\* generics, where-clause and return type of a method as written
SigShapes ==
    { [params |-> <<>>, where_clause |-> <<>>, output |-> ReturnType(TypePath("i32"))],
      [params |-> <<TypeParam("T")>>, where_clause |-> <<>>, output |-> ReturnDefault],
      [params |-> <<LifetimeParam("'b"), TypeParam("T"), ConstParam("N")>>,
       where_clause |-> <<[predicates |-> <<UserPredicate>>]>>,
       output |-> ReturnType(TypePath("i32"))],
      [params |-> <<ConstParam("N")>>, where_clause |-> <<[predicates |-> <<>>]>>,
       output |-> ReturnDefault] }

Sig(asyncness, shape, inputs) ==
    [asyncness |-> asyncness, ident |-> "f",
     generics |-> [params |-> shape.params, where_clause |-> shape.where_clause],
     inputs |-> inputs, output |-> shape.output]

Bodies == {"none", "plain", "uses_self"}

Block(body) ==
    [stmts |-> IF body = "none" THEN <<StmtVerbatim(";")>>
               ELSE IF body = "plain" THEN <<StmtExpr("e", "")>>
               ELSE <<StmtExpr("e", "Self")>>]

\* A trait method without a body has no default; an impl method without a
\* body is parsed with the `;` placeholder as its block.
Method(kind, sig, body) ==
    IF kind = "Trait"
    THEN [item |-> "Method", attrs |-> <<>>, sig |-> sig,
          default |-> IF body = "none" THEN <<>> ELSE <<Block(body)>>]
    ELSE [item |-> "Method", attrs |-> <<>>, sig |-> sig, block |-> Block(body)]

OtherItem == [item |-> "Other"]

RefSelf == <<Receiver(TRUE, NoLifetime, FALSE)>>

\* every receiver form on its own, and every parameter list with and without
\* a receiver
InputLists ==
    Receivers \cup {r \o ps : r \in {<<>>, RefSelf}, ps \in ParamLists}

AsyncMethods(kind) ==
    { Method(kind, Sig(TRUE, shape, inputs), body) :
        shape \in SigShapes, inputs \in InputLists, body \in Bodies }

ShapeA == CHOOSE s \in SigShapes : s.params = <<>>
ShapeB == CHOOSE s \in SigShapes : s.params = <<TypeParam("T")>>
ParamRefT == Typed(PatIdent(FALSE, FALSE, "x"), TypeReference(NoLifetime, FALSE, "T"))
ParamTuple == Typed(PatTuple(<<PatIdent(FALSE, FALSE, "a"), PatIdent(FALSE, FALSE, "b")>>),
                    TypePath("(A, B)"))
ParamTupleMut == Typed(PatTuple(<<PatIdent(FALSE, TRUE, "c"), PatIdent(FALSE, FALSE, "d")>>),
                       TypePath("(A, B)"))

\* the items of the traits and impls that hold several items
ItemPool(kind) ==
    { OtherItem,
      Method(kind, Sig(FALSE, ShapeA, RefSelf), "plain"),
      Method(kind, Sig(TRUE, ShapeB, RefSelf \o <<ParamTuple>>), "uses_self"),
      Method(kind, Sig(TRUE, ShapeA, RefSelf \o <<ParamTupleMut>>), "none"),
      Method(kind, Sig(TRUE, ShapeA, RefSelf \o <<ParamTupleMut>>), "plain"),
      Method(kind, Sig(TRUE, ShapeB, <<ParamRefT>>), "plain"),
      Method(kind, Sig(TRUE, ShapeB, <<ParamTuple, ParamTupleMut>>), "plain") }

ItemLists(kind) ==
    {<<>>} \cup {<<m>> : m \in AsyncMethods(kind)}
           \cup (SeqsUpTo(ItemPool(kind), MaxItems) \ SeqsUpTo(ItemPool(kind), 1))

TraitBound(path) == [kind |-> "Trait", path |-> path]
LifetimeBound(lifetime) == [kind |-> "Lifetime", lifetime |-> lifetime]

SupertraitLists ==
    { <<>>,
      <<TraitBound(<<"Sync">>)>>,
      <<TraitBound(<<"Send">>)>>,
      <<LifetimeBound("'static"), TraitBound(<<"Debug">>), TraitBound(<<"Sync">>)>>,
      <<TraitBound(<<"std", "marker", "Send">>)>> }

GenericsLists == { <<>>, <<LifetimeParam("'a"), TypeParam("U")>> }

Traits ==
    { [kind |-> "Trait", generics |-> [params |-> g], supertraits |-> s, items |-> items] :
        g \in GenericsLists, s \in SupertraitLists, items \in ItemLists("Trait") }

ImplHeads ==
    { [generics |-> <<>>, self_ty |-> TypePath("S"), lifetime |-> NoLifetime],
      [generics |-> <<>>, self_ty |-> TypeReference(NoLifetime, FALSE, "S"),
       lifetime |-> NoLifetime],
      [generics |-> <<LifetimeParam("'a")>>, self_ty |-> TypeReference("'a", FALSE, "S"),
       lifetime |-> "'a"],
      [generics |-> <<LifetimeParam("'a"), TypeParam("U")>>,
       self_ty |-> TypeReference(NoLifetime, TRUE, "S"), lifetime |-> "'_"] }

Impls ==
    { [kind |-> "Impl", generics |-> [params |-> h.generics], self_ty |-> h.self_ty,
       trait_ |-> <<[name |-> "Trait", lifetime |-> h.lifetime]>>, items |-> items] :
        h \in ImplHeads, items \in ItemLists("Impl") }

(***************************************************************************)
(* expand(input, is_local) as a state machine: `input` is rewritten in     *)
(* place, one item per step; `orig` keeps the item as it was passed in and *)
(* `calls` the arguments transform_sig was called with for each item.      *)
(***************************************************************************)
Init ==
    /\ input \in Traits \cup Impls
    /\ is_local \in BOOLEAN
    /\ orig = input
    /\ pc = "start"
    /\ idx = 1
    /\ calls = <<>>

\* lines 55-59
EnterTrait ==
    /\ pc = "start"
    /\ input.kind = "Trait"
    /\ pc' = "trait_items"
    /\ UNCHANGED <<input, is_local, idx, calls, orig>>

\* lines 80-90
EnterImpl ==
    /\ pc = "start"
    /\ input.kind = "Impl"
    /\ input' = hoist_impl_lifetimes(input)
    /\ pc' = "impl_items"
    /\ UNCHANGED <<is_local, idx, calls, orig>>

\* lines 60-78, one iteration
TraitItem ==
    /\ pc = "trait_items"
    /\ idx <= Len(input.items)
    /\ LET r == expand_trait_item(Context(input), input.items[idx], is_local)
       IN /\ input' = [input EXCEPT !.items[idx] = r.item]
          /\ calls' = Append(calls, r.call)
    /\ idx' = idx + 1
    /\ UNCHANGED <<is_local, pc, orig>>

\* lines 91-104, one iteration
ImplItem ==
    /\ pc = "impl_items"
    /\ idx <= Len(input.items)
    /\ LET r == expand_impl_item(Context(input), input.items[idx], is_local)
       IN /\ input' = [input EXCEPT !.items[idx] = r.item]
          /\ calls' = Append(calls, r.call)
    /\ idx' = idx + 1
    /\ UNCHANGED <<is_local, pc, orig>>

\* line 107: the loop is over
Return ==
    /\ pc \in {"trait_items", "impl_items"}
    /\ idx > Len(input.items)
    /\ pc' = "done"
    /\ UNCHANGED <<input, is_local, idx, calls, orig>>

Next == EnterTrait \/ EnterImpl \/ TraitItem \/ ImplItem \/ Return

Spec == Init /\ [][Next]_vars

(***************************************************************************)
(* Vocabulary of the properties: item i as it was passed in and as it is   *)
(* after the loop went over it.                                            *)
(***************************************************************************)
Done == pc = "done"

WasAsync(i) == orig.items[i].item = "Method" /\ orig.items[i].sig.asyncness

Transformed == {i \in DOMAIN orig.items : i < idx /\ WasAsync(i)}

OrigSig(i) == orig.items[i].sig
NewSig(i) == input.items[i].sig

InTrait == orig.kind = "Trait"

HasBlock(i) == IF InTrait THEN orig.items[i].default # <<>> ELSE TRUE
OrigBlock(i) == IF InTrait THEN orig.items[i].default[1] ELSE orig.items[i].block
NewBlock(i) == IF InTrait THEN input.items[i].default[1] ELSE input.items[i].block

\* a body that is not the `;` placeholder
RealBody(i) == HasBlock(i) /\ OrigBlock(i).stmts # <<StmtVerbatim(";")>>

\* a default body in the sense of has_default: impl methods never count
HasDefaultBody(i) == InTrait /\ orig.items[i].default # <<>>

WrittenPredicates(i) ==
    IF OrigSig(i).generics.where_clause = <<>> THEN <<>>
    ELSE OrigSig(i).generics.where_clause[1].predicates

NewPredicates(i) == NewSig(i).generics.where_clause[1].predicates

AddedPredicates(i) ==
    SubSeq(NewPredicates(i), Len(WrittenPredicates(i)) + 1, Len(NewPredicates(i)))

SelfPredicates(i) ==
    SelectSeq(AddedPredicates(i), LAMBDA p : p.bounded = "Self")

FutureType(i) == NewSig(i).output.ty

WrittenOutput(i) ==
    IF OrigSig(i).output.kind = "Default" THEN [kind |-> "Unit"] ELSE OrigSig(i).output.ty

\* the receiver as written: `&self` or `self: &Self`
ImmutableRefReceiver(i) ==
    /\ OrigSig(i).inputs # <<>>
    /\ LET first == OrigSig(i).inputs[1]
       IN \/ first.arg = "Receiver" /\ first.reference /\ ~first.mutability
          \/ /\ first.arg = "Typed" /\ first.pat.kind = "Ident" /\ first.pat.ident = "self"
             /\ first.ty.kind = "Reference" /\ ~first.ty.mutability

\* `&mut self`, `self: &mut Self`, `self`, `mut self`, `self: Box<Self>`
MutableOrOwnedReceiver(i) ==
    /\ OrigSig(i).inputs # <<>>
    /\ LET first == OrigSig(i).inputs[1]
       IN \/ first.arg = "Receiver" /\ (~first.reference \/ first.mutability)
          \/ /\ first.arg = "Typed" /\ first.pat.kind = "Ident" /\ first.pat.ident = "self"
             /\ (first.ty.kind # "Reference" \/ first.ty.mutability)

ChosenMarker(i) == IF ImmutableRefReceiver(i) THEN "Sync" ELSE "Send"

\* the supertrait list names the marker (as the bare identifier)
SupertraitsContain(marker) ==
    \E k \in DOMAIN orig.supertraits :
        orig.supertraits[k] = TraitBound(<<marker>>)

OutlivesOnly(p) == p.bounds = <<"'async_trait">>
MarkerAndOutlives(p, marker) == p.bounds = <<"::core::marker::" \o marker, "'async_trait">>

(***************************************************************************)
(* C1: when expand has finished, every method that carried the asynchrony  *)
(* marker has lost it, returns the pinned boxed dyn Future whose Output is *)
(* the return type as written (unit when none was written), and declares   *)
(* 'async_trait among its generic parameters.                              *)
(***************************************************************************)
C1_AsyncMethodsRewritten ==
    Done =>
        \A i \in DOMAIN orig.items :
            WasAsync(i) =>
                /\ ~NewSig(i).asyncness
                /\ NewSig(i).output.kind = "Type"
                /\ FutureType(i).kind = "PinBoxDynFuture"
                /\ FutureType(i).Output = WrittenOutput(i)
                /\ LifetimeParam("'async_trait") \in Range(NewSig(i).generics.params)

\* a finished trait holding a body-less async method with no return type
C1_Witness ==
    /\ Done /\ InTrait
    /\ \E i \in DOMAIN orig.items :
          /\ WasAsync(i) /\ ~HasBlock(i)
          /\ OrigSig(i).output.kind = "Default"
          /\ FutureType(i).kind = "PinBoxDynFuture"

C3_MarkerByReceiver ==
    \A i \in Transformed :
        \A k \in DOMAIN SelfPredicates(i) :
            LET p == SelfPredicates(i)[k]
            IN Len(p.bounds) > 1 =>
                  /\ ImmutableRefReceiver(i) =>
                        /\ "::core::marker::Sync" \in Range(p.bounds)
                        /\ "::core::marker::Send" \notin Range(p.bounds)
                  /\ MutableOrOwnedReceiver(i) =>
                        "::core::marker::Send" \in Range(p.bounds)

\* a Sync bound was synthesized for `self: &Self`
C3_Witness ==
    \E i \in Transformed :
        /\ ImmutableRefReceiver(i)
        /\ OrigSig(i).inputs[1].arg = "Typed"
        /\ SelfPredicates(i) # <<>>
        /\ "::core::marker::Sync" \in Range(SelfPredicates(i)[1].bounds)

(***************************************************************************)
(* C4: with is_local the future is bounded by 'async_trait and not by      *)
(* Send, and no predicate added on Self names Sync or Send; without        *)
(* is_local the future is always bounded by Send.                          *)
(***************************************************************************)
C4_LocalOmitsSend ==
    \A i \in Transformed :
        IF is_local
        THEN /\ "'async_trait" \in Range(FutureType(i).bounds)
             /\ "::core::marker::Send" \notin Range(FutureType(i).bounds)
             /\ \A k \in DOMAIN SelfPredicates(i) : OutlivesOnly(SelfPredicates(i)[k])
        ELSE "::core::marker::Send" \in Range(FutureType(i).bounds)

\* local mode met the one case that would otherwise get a marker bound
C4_Witness ==
    \E i \in Transformed :
        /\ is_local /\ calls[i].has_self /\ HasDefaultBody(i)
        /\ ~SupertraitsContain(ChosenMarker(i))
        /\ OutlivesOnly(SelfPredicates(i)[1])

\* parameter k (counted from 1) of item i as written
Destructured(i, k) ==
    OrigSig(i).inputs[k].arg = "Typed" /\ OrigSig(i).inputs[k].pat.kind # "Ident"

\* its type, or the receiver, is a reference without a named lifetime
ElidedRef(i, k) ==
    LET a == OrigSig(i).inputs[k]
    IN \/ a.arg = "Receiver" /\ a.reference /\ a.lifetime \in {NoLifetime, "'_"}
       \/ a.arg = "Typed" /\ a.ty.kind = "Reference" /\ a.ty.lifetime \in {NoLifetime, "'_"}

Placeholder(k) == "__arg" \o ToString(k - 1)

\* what the generated async block holds, in order
Inner(i) == NewBlock(i).stmts[1].inner

SameShape(i, j) ==
    /\ Len(OrigSig(i).inputs) = Len(OrigSig(j).inputs)
    /\ \A k \in DOMAIN OrigSig(i).inputs :
          /\ Destructured(i, k) <=> Destructured(j, k)
          /\ ElidedRef(i, k) <=> ElidedRef(j, k)

Placeholders(i) ==
    {NewSig(i).inputs[k].pat.ident : k \in {n \in DOMAIN OrigSig(i).inputs : Destructured(i, n)}}

\* the lifetime parameters the transformation declared, 'async_trait aside
FreshLifetimeSeq(i) ==
    LET added == SubSeq(NewSig(i).generics.params, Len(OrigSig(i).generics.params) + 1,
                        Len(NewSig(i).generics.params))
        fresh == SelectSeq(added, LAMBDA g : g.name # "'async_trait")
    IN [n \in DOMAIN fresh |-> fresh[n].name]

Synthesized(i) == Placeholders(i) \cup Range(FreshLifetimeSeq(i))

(***************************************************************************)
(* C6 as stated: two async methods of one item with parameter lists of the *)
(* same shape get different synthesized names.                             *)
(***************************************************************************)
C6_NamesDifferAcrossMethods ==
    \A i \in Transformed : \A j \in Transformed :
        (i # j /\ SameShape(i, j)) => Synthesized(i) \cap Synthesized(j) = {}

(***************************************************************************)
(* C6 as amended: the synthesized names depend on the position alone       *)
(* (__arg<index>, and 'life0, 'life1, ... counted per method), so two      *)
(* methods of the same shape get the same names; within one method the     *)
(* placeholders of different parameters differ and so do its fresh         *)
(* lifetimes.                                                              *)
(***************************************************************************)
C6_NamesPerMethod ==
    \A i \in Transformed :
        /\ \A j \in Transformed : SameShape(i, j) => Synthesized(i) = Synthesized(j)
        /\ \A k1 \in DOMAIN OrigSig(i).inputs : \A k2 \in DOMAIN OrigSig(i).inputs :
              (Destructured(i, k1) /\ Destructured(i, k2) /\ k1 # k2) =>
                  NewSig(i).inputs[k1].pat.ident # NewSig(i).inputs[k2].pat.ident
        /\ Cardinality(Range(FreshLifetimeSeq(i))) = Len(FreshLifetimeSeq(i))

\* two methods of the same shape were transformed and share a placeholder,
\* and a method with two destructuring parameters was transformed
C6_Witness ==
    /\ \E i \in Transformed : \E j \in Transformed :
          /\ i # j /\ SameShape(i, j)
          /\ "__arg1" \in Placeholders(i) \cap Placeholders(j)
    /\ \E i \in Transformed : Cardinality(Placeholders(i)) = 2

\* the trait method `async fn get(&self) -> i32;` (its name plays no part)
IsGet(i) ==
    /\ InTrait /\ WasAsync(i) /\ ~HasBlock(i)
    /\ OrigSig(i).generics = [params |-> <<>>, where_clause |-> <<>>]
    /\ OrigSig(i).inputs = <<Receiver(TRUE, NoLifetime, FALSE)>>
    /\ OrigSig(i).output = ReturnType(TypePath("i32"))

GetRewritten(i, self_bounds) ==
    /\ ~NewSig(i).asyncness
    /\ NewSig(i).generics.params = <<LifetimeParam("'life0"), LifetimeParam("'async_trait")>>
    /\ NewSig(i).inputs = <<Receiver(TRUE, "'life0", FALSE)>>
    /\ NewSig(i).output =
          ReturnType([kind |-> "PinBoxDynFuture", Output |-> TypePath("i32"),
                      bounds |-> <<"::core::marker::Send", "'async_trait">>])
    /\ NewPredicates(i) =
          << Predicate("'life0", <<"'async_trait">>), Predicate("Self", self_bounds) >>

WrittenInInputs(i, name) ==
    \E k \in DOMAIN OrigSig(i).inputs :
        LET a == OrigSig(i).inputs[k]
        IN \/ a.arg = "Receiver" /\ a.lifetime = name
           \/ a.arg = "Typed" /\ a.ty.kind = "Reference"
                              /\ (a.ty.lifetime = name \/ a.ty.elem = name)
           \/ a.arg = "Typed" /\ a.ty.kind = "Path" /\ a.ty.name = name

UsedParams(i) ==
    {g \in Range(OrigSig(i).generics.params) \cup Range(orig.generics.params) :
        WrittenInInputs(i, g.name)}

ElidedCount(i) == Cardinality({k \in DOMAIN OrigSig(i).inputs : ElidedRef(i, k)})

ExpectedFresh(i) == [n \in 1..ElidedCount(i) |-> "'life" \o ToString(n - 1)]

ExpectedOutlives(i) ==
    LET own == SelectSeq(OrigSig(i).generics.params, LAMBDA g : g.kind # "Const")
        outer == SelectSeq(orig.generics.params,
                           LAMBDA g : g.kind = "Lifetime" /\ WrittenInInputs(i, g.name))
    IN [n \in DOMAIN own |-> Predicate(own[n].name, <<"'async_trait">>)]
       \o [n \in DOMAIN outer |-> Predicate(outer[n].name, <<"'async_trait">>)]
       \o [n \in DOMAIN ExpectedFresh(i) |-> Predicate(ExpectedFresh(i)[n], <<"'async_trait">>)]

C9_BodyBeforeSignature ==
    \A i \in Transformed :
        HasBlock(i) =>
            /\ calls[i].has_self =
                  (has_self_in_sig(OrigSig(i)) \/ has_self_in_block(OrigBlock(i)))
            /\ RealBody(i) =>
                  LET w == NewBlock(i).stmts[1]
                  IN /\ w.kind = "BoxPinAsyncMove"
                     /\ w.ret_ty = WrittenOutput(i)
                     /\ w.ret_ty.kind # "PinBoxDynFuture"
                     /\ \A k \in DOMAIN OrigSig(i).inputs :
                           LET a == OrigSig(i).inputs[k]
                           IN /\ w.inner[k].kind = "Local"
                              /\ a.arg = "Receiver" =>
                                    w.inner[k].pat.mutability = a.mutability
                              /\ (a.arg = "Typed" /\ a.pat.kind = "Ident") =>
                                    w.inner[k].pat.mutability = a.pat.mutability
                              /\ (a.arg = "Typed" /\ a.pat.kind # "Ident") =>
                                    w.inner[k].pat = a.pat

\* an impl method without receiver whose body names Self, with a `mut x`
\* parameter, was wrapped
C9_Witness ==
    \E i \in Transformed :
        /\ ~InTrait /\ RealBody(i)
        /\ ~has_self_in_sig(OrigSig(i)) /\ calls[i].has_self
        /\ \E k \in DOMAIN OrigSig(i).inputs :
              /\ OrigSig(i).inputs[k].arg = "Typed"
              /\ OrigSig(i).inputs[k].pat.kind = "Ident"
              /\ OrigSig(i).inputs[k].pat.mutability
        /\ NewBlock(i).stmts[1].kind = "BoxPinAsyncMove"
        /\ NewSig(i).output.ty.kind = "PinBoxDynFuture"

====
